---- MODULE Spec2Model ----
(***************************************************************************)
(* Model of the watchcat workflow automaton (workflow/automaton.py) and    *)
(* its checkpoint manager (workflow/checkpoint/manager.py,                 *)
(* workflow/checkpoint/serializers.py).                                    *)
(*                                                                         *)
(* One action is one iteration of the loop of Automaton.run(): the handler *)
(* of the current state, the save_checkpoint call that follows it and,     *)
(* when either raises, the except clause of run() (_handle_error, raise).  *)
(* Timestamps and log output are not modelled.                             *)
(*                                                                         *)
(* Specifications:                                                         *)
(*   Spec         one Automaton object over the repository's datastore     *)
(*   SpecRestart  Spec with the process restarted (a new Automaton)        *)
(*   SpecManager  the CheckpointManager called directly                    *)
(*   SpecStored   run() up to the end of Init, the latest-checkpoint query *)
(*                of the datastore ending in any of QueryOutcomes          *)
(*   SpecRetry    one AutoRetry object (autoretry.py): call() and reset(); *)
(*                one action is one whole call()                           *)
(*   SpecPipeline one run() of one Automaton whose PluginFactory may build *)
(*                sources (each create_source call returns an object,      *)
(*                returns None or raises); the repository's factory, which *)
(*                builds nothing, is one of the cases                      *)
(*   SpecRegistry one PluginRegistry (workflow/plugins/registry.py) over   *)
(*                any configuration and factory: register_all_plugins()    *)
(*   SpecRerun    every run() of one Automaton whose factory builds one    *)
(*                source: a run() after one that raised re-executes a stage*)
(*   SpecLive     Spec with the loop of run() going on (weak fairness of   *)
(*                its iterations)                                          *)
(*   SpecPuller   one pull() with filters on a Mailbox (IMAP, POP3) or an  *)
(*                Arxiv source (puller/mailbox.py, puller/arxiv.py)        *)
(*   SpecFilters  the filter operators &, |, ~ (puller/source.py) evaluated*)
(*                on the two sides of a law of boolean algebra             *)
(*   SpecRoundTrip serializable_object() then from_serializable_object() on*)
(*                a Mail or an ArxivPaper (puller/mail.py, arxiv_paper.py) *)
(*   SpecDatabase  the store_* and get_* methods of one SQLite3 Database   *)
(*                (datastore/database.py, datastore/sqlite3_db.py)         *)
(***************************************************************************)
EXTENDS Integers, Sequences, FiniteSets, TLC

\* ---------------------------------------------------------------- bounds
MaxInstances == 2   \* Automaton objects constructed over one datastore
MaxPosts == 2       \* posts one source returns from one pull()

\* ------------------------------------------------------------- constants
max_retries == 3

INIT == "init"
PULLING == "pulling"
SUMMARIZING == "summarizing"
EVALUATING == "evaluating"
FEEDBACK == "feedback"
DONE == "done"

State == {INIT, PULLING, SUMMARIZING, EVALUATING, FEEDBACK, DONE}

\* position of a state in the declaration order of the enumeration
StateRank(s) ==
    CASE s = INIT -> 0
      [] s = PULLING -> 1
      [] s = SUMMARIZING -> 2
      [] s = EVALUATING -> 3
      [] s = FEEDBACK -> 4
      [] s = DONE -> 5

\* Optional[T]: None is the empty sequence, a value x is <<x>>
None == <<>>
Some(x) == <<x>>

\* the value of `restored` while restore_checkpoint has not been called: a
\* pair, so that it differs from None and from every Some(x)
NotCalled == <<"restore_checkpoint", "not called">>

\* the source ids a configuration can declare, in configuration order
SourceOrder == <<"arxiv-cs", "mail-inbox">>
SourceIds == {SourceOrder[i] : i \in 1..Len(SourceOrder)}

\* ------------------------------------------------------------------ state
VARIABLES
    self,               \* the fields of the Automaton object
    store,              \* the checkpoint records held by the datastore
    pc,                 \* "idle": no run() active; "running": at the loop head
    run_result,         \* how the last run() ended: "none", "returned", "raised"
    run_calls,          \* run() calls made on this instance: 0, 1, 2 (two or more)
    instances,          \* Automaton objects constructed so far
    handlers_run,       \* handlers executed by the current/last run() call
    last_transition,    \* Optional: the fields as the handler of the last iteration
                        \* of this run() left them (None: it raised, or no iteration yet)
    last_save_args,     \* Optional: the arguments of the save_checkpoint call of
                        \* the last iteration of this run() (None: no such call)
    last_saved_state,   \* Optional: state of the last checkpoint this instance saved
    latest_saved,       \* Optional: data of the last save_checkpoint that returned
    observed,           \* what the handler of the last iteration met: the
                        \* sources it called pull() on, what each pull did,
                        \* the posts whose processing raised, where it raised
    restored,           \* what restore_checkpoint returned in the last iteration
                        \* of this run() (NotCalled: it was not called)
    save_failed,        \* a save_checkpoint call made on the manager by its
                        \* caller (SaveCheckpoint) has raised CheckpointError
    query_outcome,      \* how the latest-checkpoint query of the datastore ends
    registry,           \* the fields of a PluginRegistry used on its own, and
                        \* what its configuration and its factory are
    ar,                 \* the fields of the AutoRetry object
    frame,              \* the last operation on the AutoRetry object and, for
                        \* call(), how it ended
    puller,             \* a Source (Mailbox or Arxiv) used on its own: what
                        \* its server holds, and the last pull() made on it
    composed,           \* three filters, what each base filter answers on one
                        \* post, and the two sides of the last law evaluated
    roundtrip,          \* a post x and, once it has been serialized and read
                        \* back, the post y that came out
    database            \* the tables of a Database (datastore/__init__.py),
                        \* its clock, and per table and id the values of the
                        \* last store_* call

automatonVars == <<self, pc, run_result, run_calls, instances, handlers_run,
                   last_transition, last_save_args, last_saved_state, observed>>

retryVars == <<ar, frame>>

\* the variables of the pullers and of the datastore, used on their own
pureVars == <<puller, composed, roundtrip, database>>

\* the variables of the objects used on their own
otherVars == <<save_failed, query_outcome, registry, ar, frame, pureVars>>

vars == <<self, store, pc, run_result, run_calls, instances, handlers_run,
          last_transition, last_save_args,
          last_saved_state, latest_saved, restored, observed,
          save_failed, query_outcome, registry, ar, frame, pureVars>>

\* ------------------------------------------------------------ Automaton()
EmptyUserModel == [has_metrics |-> FALSE, total_insights_generated |-> 0]

NewSelf ==
    [state |-> INIT,
     datastore |-> "none",
     config_loaded |-> FALSE,
     config_data |-> {},
     checkpoint_manager |-> FALSE,
     plugin_registry |-> None,
     pulled_posts |-> <<>>,
     processed_insights |-> <<>>,
     user_model |-> EmptyUserModel,
     notifications_sent |-> <<>>,
     last_error |-> "none",
     retry_count |-> 0]

\* ----------------------------------------------------------------- posts
\* a Post object: its id and the source it came from; the n posts a source
\* returns are numbered in the order returned
PostsOf(s, n) ==
    {[i \in 1..n |-> [id |-> i, source |-> s]]}

PullResults(s) == UNION {PostsOf(s, n) : n \in 0..MaxPosts}

\* what one source does in one _pull_data: pull() raises, or it returns posts
\* and _store_post raises on the store_fail_at-th of them (0: on none)
PullOutcomes(s) ==
    {o \in [raises : BOOLEAN, posts : PullResults(s), store_fail_at : 0..MaxPosts] :
        /\ o.raises => (o.posts = <<>> /\ o.store_fail_at = 0)
        /\ o.store_fail_at <= Len(o.posts)}

\* the posts the loop body of _pull_data appends for one source
AppendedFrom(o) ==
    IF o.raises THEN <<>>
    ELSE IF o.store_fail_at \in 1..Len(o.posts)
         THEN SubSeq(o.posts, 1, o.store_fail_at - 1)
         ELSE o.posts

RECURSIVE PullAll(_, _)
PullAll(sources, pulls) ==
    IF sources = <<>> THEN <<>>
    ELSE AppendedFrom(pulls[Head(sources)]) \o PullAll(Tail(sources), pulls)

\* ----------------------------------------------------- checkpoint manager
SerializePost(post) ==
    [id |-> post.id, source |-> post.source, content |-> <<post.source, post.id>>]

\* bad: the positions of the posts whose serialization raises
RECURSIVE serialize_from(_, _, _)
serialize_from(posts, i, bad) ==
    IF i > Len(posts) THEN <<>>
    ELSE IF i \in bad THEN serialize_from(posts, i + 1, bad)
         ELSE <<SerializePost(posts[i])>> \o serialize_from(posts, i + 1, bad)

serialize_posts(posts, bad) == serialize_from(posts, 1, bad)

deserialize_posts(serialized_posts) == <<>>

checkpoint_data(a, bad) ==
    [state |-> a.state,
     retry_count |-> a.retry_count,
     user_model |-> a.user_model,
     pulled_posts |-> serialize_posts(a.pulled_posts, bad),
     processed_insights |-> a.processed_insights,
     notifications_sent |-> a.notifications_sent]

store_checkpoint(st, data) == st

query_latest_checkpoint(st) == None

\* restore_checkpoint once its query has ended as q: q.raises, or q.data is
\* what the query returned
restore_from(q) ==
    IF q.raises THEN None
    ELSE IF q.data # None
         THEN IF "pulled_posts" \in DOMAIN q.data[1]
              THEN Some([q.data[1] EXCEPT !.pulled_posts = deserialize_posts(@)])
              ELSE q.data
         ELSE None

restore_checkpoint(st) ==
    restore_from([raises |-> FALSE, data |-> query_latest_checkpoint(st)])

\* the arguments run() hands to save_checkpoint
SaveArgs(a) ==
    [state |-> a.state,
     retry_count |-> a.retry_count,
     user_model |-> a.user_model,
     pulled_posts |-> a.pulled_posts,
     processed_insights |-> a.processed_insights,
     notifications_sent |-> a.notifications_sent]

\* ---------------------------------------------------------- the handlers
\* PluginFactory.create_source, create_processor, create_notifier: what the
\* call yields for the entry `id`. "None": it returns None; the other
\* outcomes a factory can have are "object" (it returns a plugin, named by its
\* id in the model) and "raises"
create_source(id) == "None"
create_processor(id) == "None"
create_notifier(id) == "None"

\* the processor and notifier ids a configuration can declare, in
\* configuration order
ProcessorOrder == <<"relevance">>
NotifierOrder == <<"email">>
PluginIds ==
    SourceIds \cup {ProcessorOrder[i] : i \in 1..Len(ProcessorOrder)}
              \cup {NotifierOrder[i] : i \in 1..Len(NotifierOrder)}

FactoryOutcomes == {"None", "object", "raises"}

\* the factory of the repository, as the outcome of its call per entry
RepositoryFactory ==
    [id \in PluginIds |->
        IF id \in SourceIds THEN create_source(id)
        ELSE IF id = ProcessorOrder[1] THEN create_processor(id)
        ELSE create_notifier(id)]

\* a registration loop inserting whatever is enabled, built or not
RECURSIVE register_loop_unchecked(_, _, _)
register_loop_unchecked(entries, enabled, made) ==
    IF entries = <<>> THEN <<>>
    ELSE (IF Head(entries) \in enabled THEN <<Head(entries)>> ELSE <<>>)
         \o register_loop_unchecked(Tail(entries), enabled, made)

\* a registration loop that a raising factory call ends
RECURSIVE register_loop_aborting(_, _, _)
register_loop_aborting(entries, enabled, made) ==
    IF entries = <<>> THEN <<>>
    ELSE IF Head(entries) \in enabled /\ made[Head(entries)] = "raises"
         THEN <<>>
         ELSE (IF Head(entries) \in enabled /\ made[Head(entries)] = "object"
               THEN <<Head(entries)>> ELSE <<>>)
              \o register_loop_aborting(Tail(entries), enabled, made)

\* the loop of _register_sources, _register_processors, _register_notifiers
\* over the entries of its section, in configuration order: the plugins it
\* appends. enabled: the ids whose enabled flag is true; made: the outcome of
\* the factory call per id
RECURSIVE register_loop(_, _, _)
register_loop(entries, enabled, made) ==
    IF entries = <<>> THEN <<>>
    ELSE (IF Head(entries) \in enabled /\ made[Head(entries)] = "object"
          THEN <<Head(entries)>> ELSE <<>>)
         \o register_loop(Tail(entries), enabled, made)

\* the ids a registration loop hands to the factory
factory_calls(entries, enabled) == SelectSeq(entries, LAMBDA id : id \in enabled)

register_sources(enabled, made) == register_loop(SourceOrder, enabled, made)
register_processors(enabled, made) == register_loop(ProcessorOrder, enabled, made)
register_notifiers(enabled, made) == register_loop(NotifierOrder, enabled, made)

\* register_all_plugins on a registry r; loop_fails names the section whose
\* loop raises before its first entry ("none": no loop raises)
register_all_plugins(r, loop_fails) ==
    LET r1 == [r EXCEPT !.sources = register_sources(r.enabled, r.made),
                        !.calls = factory_calls(SourceOrder, r.enabled)]
        r2 == [r1 EXCEPT !.processors = register_processors(r.enabled, r.made),
                         !.calls = @ \o factory_calls(ProcessorOrder, r.enabled)]
        r3 == [r2 EXCEPT !.notifiers = register_notifiers(r.enabled, r.made),
                         !.calls = @ \o factory_calls(NotifierOrder, r.enabled)]
    IN  CASE loop_fails = "sources" -> [r EXCEPT !.outcome = "PluginError"]
          [] loop_fails = "processors" -> [r1 EXCEPT !.outcome = "PluginError"]
          [] loop_fails = "notifiers" -> [r2 EXCEPT !.outcome = "PluginError"]
          [] OTHER -> [r3 EXCEPT !.outcome = "returned"]

\* PluginRegistry(config_data): enabled holds the ids whose enabled flag is
\* true in config_data, made is the factory; calls lists the ids handed to
\* the factory, outcome is how register_all_plugins ended ("none": not called)
PluginRegistry(enabled, made) ==
    [enabled |-> enabled, made |-> made, loop_fails |-> "none",
     sources |-> <<>>, processors |-> <<>>, notifiers |-> <<>>,
     calls |-> <<>>, outcome |-> "none"]

\* State(value) raises ValueError
InvalidState(ck) == ck # None /\ ck[1].state \notin State

\* an _initialize that goes on without a configuration
initialize_error_config_ignored(fail_at, ck) ==
    CASE fail_at = "datastore" -> "DatastoreError"
      [] fail_at = "config" -> "none"
      [] ck # None /\ ck[1].state \notin State -> "ValueError"
      [] fail_at = "plugins" -> "PluginError"
      [] OTHER -> "none"

\* the error _initialize raises ("none": it returns); ck is what
\* restore_checkpoint returns when it is reached
initialize_error(fail_at, ck) ==
    CASE fail_at = "config" -> "ConfigurationError"
      [] fail_at = "datastore" -> "DatastoreError"
      [] InvalidState(ck) -> "ValueError"
      [] fail_at = "plugins" -> "PluginError"
      [] OTHER -> "none"

\* _initialize; fail_at names the call that raises: "config" (load),
\* "datastore" (open), "plugins" (register_all_plugins, after k sources), "none";
\* ck is what restore_checkpoint returns when it is reached, made the factory
initialize(a, enabled, fail_at, k, ck, made) ==
    LET a1 == [a EXCEPT !.config_loaded = TRUE, !.config_data = enabled]
        a2 == [a1 EXCEPT !.datastore = "unopened"]
        a3 == [a2 EXCEPT !.datastore = "open", !.checkpoint_manager = TRUE]
        a4 == IF ck # None
              THEN [a3 EXCEPT !.state = ck[1].state,
                              !.retry_count = ck[1].retry_count,
                              !.user_model = ck[1].user_model,
                              !.pulled_posts = ck[1].pulled_posts,
                              !.processed_insights = ck[1].processed_insights,
                              !.notifications_sent = ck[1].notifications_sent]
              ELSE a3
        reg == register_sources(enabled, made)
    IN  CASE fail_at = "config" -> a
          [] fail_at = "datastore" -> a2
          [] InvalidState(ck) -> a3
          [] fail_at = "plugins" ->
                [a4 EXCEPT !.plugin_registry =
                               Some([sources |-> SubSeq(reg, 1, k)])]
          [] OTHER ->
                [a4 EXCEPT !.plugin_registry = Some([sources |-> reg]),
                           !.state = PULLING]

\* a Pulling that pulls every source the configuration enables
pull_targets_configured(a) == SelectSeq(SourceOrder, LAMBDA s : s \in a.config_data)

\* the sources the loop of _pull_data calls pull() on, in order
pull_targets(a) ==
    IF a.plugin_registry = None THEN <<>> ELSE a.plugin_registry[1].sources

\* a _pull_data that appends to what pulled_posts held
pull_data_accumulating(a, pulls, raise_at) ==
    LET a2 == [a EXCEPT !.pulled_posts = @ \o PullAll(pull_targets(a), pulls)]
    IN  IF raise_at = "entry" THEN a
        ELSE IF a.plugin_registry = None THEN [a EXCEPT !.state = SUMMARIZING]
        ELSE IF raise_at = "exit" THEN a2
        ELSE [a2 EXCEPT !.state = SUMMARIZING]

\* _pull_data; raise_at: "none", "entry" (first log call), "exit" (last log call)
pull_data(a, pulls, raise_at) ==
    LET a1 == [a EXCEPT !.pulled_posts = <<>>]
        a2 == [a1 EXCEPT !.pulled_posts = PullAll(pull_targets(a), pulls)]
    IN  IF raise_at = "entry" THEN a
        ELSE IF a.plugin_registry = None THEN [a1 EXCEPT !.state = SUMMARIZING]
        ELSE IF raise_at = "exit" THEN a2
        ELSE [a2 EXCEPT !.state = SUMMARIZING]

Insight(post) == [post_id |-> post.id, source |-> post.source]

\* a Summarizing that puts each new insight in front of the earlier ones
RECURSIVE Insights_newest_first(_, _, _)
Insights_newest_first(posts, i, failing) ==
    IF i > Len(posts) THEN <<>>
    ELSE IF i \in failing THEN Insights_newest_first(posts, i + 1, failing)
         ELSE Insights_newest_first(posts, i + 1, failing)
              \o <<Insight(posts[i])>>

\* a Summarizing that the first failing post ends
RECURSIVE Insights_until_failure(_, _, _)
Insights_until_failure(posts, i, failing) ==
    IF i > Len(posts) \/ i \in failing THEN <<>>
    ELSE <<Insight(posts[i])>> \o Insights_until_failure(posts, i + 1, failing)

RECURSIVE Insights(_, _, _)
Insights(posts, i, failing) ==
    IF i > Len(posts) THEN <<>>
    ELSE IF i \in failing THEN Insights(posts, i + 1, failing)
         ELSE <<Insight(posts[i])>> \o Insights(posts, i + 1, failing)

\* _summarize with the transition of _evaluate_model: Evaluating is skipped
summarize_to_feedback(a, failing, raise_at) ==
    LET a1 == [a EXCEPT !.processed_insights =
                            Insights(a.pulled_posts, 1, failing)]
    IN  IF raise_at = "entry" THEN a
        ELSE IF raise_at = "exit" THEN a1
        ELSE [a1 EXCEPT !.state = FEEDBACK]

\* _summarize; failing: the positions in pulled_posts whose
\* _process_post_with_plugins raises
summarize(a, failing, raise_at) ==
    LET a1 == [a EXCEPT !.processed_insights =
                            Insights(a.pulled_posts, 1, failing)]
    IN  IF raise_at = "entry" THEN a
        ELSE IF raise_at = "exit" THEN a1
        ELSE [a1 EXCEPT !.state = EVALUATING]

\* _evaluate_model
evaluate_model(a, raise_at) ==
    LET a1 == [a EXCEPT !.user_model =
                  [has_metrics |-> TRUE,
                   total_insights_generated |->
                       (IF a.user_model.has_metrics
                        THEN a.user_model.total_insights_generated ELSE 0)
                       + Len(a.processed_insights)]]
    IN  IF raise_at = "entry" THEN a
        ELSE IF raise_at = "exit" THEN a1
        ELSE [a1 EXCEPT !.state = FEEDBACK]

\* _handle_feedback
handle_feedback(a, raise_at) ==
    LET notifications ==
            IF Len(a.processed_insights) > 0
            THEN <<[type |-> "info", message |-> Len(a.processed_insights)]>>
            ELSE <<>>
        a1 == [a EXCEPT !.notifications_sent = @ \o notifications]
    IN  IF raise_at = "entry" THEN a
        ELSE IF raise_at = "exit" THEN a1
        ELSE [a1 EXCEPT !.state = DONE]

\* _handle_error restarting the pipeline on a retry instead of keeping the state
handle_error_restart(a) ==
    LET a1 == [a EXCEPT !.retry_count = @ + 1]
    IN  IF a1.retry_count <= max_retries THEN [a1 EXCEPT !.state = INIT]
        ELSE [a1 EXCEPT !.state = DONE]

\* _handle_error
handle_error(a) ==
    LET a1 == [a EXCEPT !.retry_count = @ + 1]
    IN  IF a1.retry_count <= max_retries THEN a1
        ELSE [a1 EXCEPT !.state = DONE]

\* a loop of run() with no exit
loop_test_forever(a) == TRUE

\* the loop of run() left one state early
loop_test_before_feedback(a) == a.state \notin {FEEDBACK, DONE}

\* the test of the while loop of run()
loop_test(a) == a.state # DONE

\* the guard of the save_checkpoint call skipping the terminal state
SaveGuardNotDone(a) == a.checkpoint_manager /\ a.state # DONE

\* the guard of the save_checkpoint call in run()
SaveGuard(a) == a.checkpoint_manager

\* -------------------------------------------------------------- AutoRetry
init_retry_delay == 10

Max(m, n) == IF m >= n THEN m ELSE n

\* AutoRetry(func, max_retrys=, increment_factor=, decrement_num=)
AutoRetry(max_retrys, increment_factor, decrement_num) ==
    [max_retrys |-> max_retrys,
     retry_delay |-> init_retry_delay,
     increment_factor |-> increment_factor,
     decrement_num |-> decrement_num]

\* reset() leaving the delay as it is
reset_nothing(x) == x

\* reset()
reset(x) == [x EXCEPT !.retry_delay = init_retry_delay]

\* a failed attempt that is not counted
count_failure_dropped(retry_count) == retry_count

\* retry_count += 1 of the except clause of call()
count_failure(retry_count) == retry_count + 1

\* how a call() ends: the fields x it leaves, its outcome ("value": it
\* returned what the wrapped function returned; "None": it fell off the loop;
\* "AutoRetryError", "ValueError": it raised), the list `exceptions` (each
\* failure is named by the number of the invocation that raised it), the
\* number of invocations of the wrapped function and the durations of the
\* time.sleep calls that returned, in order
Ended(x, outcome, exceptions, invocations, sleeps) ==
    [ar |-> x, outcome |-> outcome, exceptions |-> exceptions,
     invocations |-> invocations, sleeps |-> sleeps]

\* a failed attempt after which the delay is slept first and multiplied then
backoff_sleep_first(x) ==
    [delay |-> x.retry_delay * x.increment_factor, slept |-> x.retry_delay]

\* self.retry_delay *= self.increment_factor; time.sleep(self.retry_delay):
\* the delay left in the executor and the argument of time.sleep
backoff(x) ==
    [delay |-> x.retry_delay * x.increment_factor,
     slept |-> x.retry_delay * x.increment_factor]

\* the while loop of call() from its head; the wrapped function raises on
\* its first `fails` invocations and returns on the next one
RECURSIVE call_loop(_, _, _, _, _, _)
call_loop(x, fails, retry_count, exceptions, invocations, sleeps) ==
    IF ~(retry_count < x.max_retrys)
    THEN Ended(x, "None", exceptions, invocations, sleeps)
    ELSE IF invocations >= fails
    THEN Ended([x EXCEPT !.retry_delay =
                            @ - Max(init_retry_delay, x.decrement_num)],
               "value", exceptions, invocations + 1, sleeps)
    ELSE LET exceptions1 == Append(exceptions, invocations + 1)
             retry_count1 == count_failure(retry_count)
             x1 == [x EXCEPT !.retry_delay = backoff(x).delay]
         IN  IF retry_count1 >= x.max_retrys
             THEN Ended(x, "AutoRetryError", exceptions1, invocations + 1,
                        sleeps)
             \* time.sleep raises ValueError on a negative argument
             ELSE IF backoff(x).slept < 0
             THEN Ended(x1, "ValueError", exceptions1, invocations + 1, sleeps)
             ELSE call_loop(x1, fails, retry_count1, exceptions1,
                            invocations + 1, Append(sleeps, backoff(x).slept))

\* a call() that makes one attempt when max_retrys is not positive
call_at_least_once(x, fails) ==
    LET e == call_loop([x EXCEPT !.max_retrys = Max(1, x.max_retrys)],
                       fails, 0, <<>>, 0, <<>>)
    IN  [e EXCEPT !.ar.max_retrys = x.max_retrys]

\* call()
call(x, fails) == call_loop(x, fails, 0, <<>>, 0, <<>>)

\* no operation made on the AutoRetry object yet
NoCall ==
    [op |-> "none", ops |-> 0, fails |-> 0, outcome |-> "none",
     exceptions |-> <<>>, invocations |-> 0, sleeps |-> <<>>]

\* ------------------------------------------------------------ the pullers
\* A post is modelled by what the tests of the filters read of it. A Mail:
\* `subject_t` (the term is in its subject), `attach` (it has attachments),
\* `recent` (it is of the last 30 days). An ArxivPaper: `author_n` (the
\* name is among its authors, a field of the arXiv entry that ArxivPaper
\* does not keep), `text_n` (the name is in its abstract), `recent` (it is
\* of the last week).
MailFields == [class : {"Mail"}, subject_t : BOOLEAN, attach : BOOLEAN,
               recent : BOOLEAN]
PaperFields == [class : {"ArxivPaper"}, author_n : BOOLEAN, text_n : BOOLEAN,
                recent : BOOLEAN]

\* MailFilter(kind, **filter_args), ArxivFilter(kind, **filter_args)
SourceFilter(class, kind, flag) ==
    [class |-> class, of |-> class, kind |-> kind, flag |-> flag]

\* _InvertedFilter(filter_obj) of a MailFilter or ArxivFilter
InvertedFilter(f) == [f EXCEPT !.class = "_InvertedFilter"]

\* MailFilter.__call__ and ArxivFilter.__call__
filter_test(f, post) ==
    IF f.of = "MailFilter"
    THEN IF post.class # "Mail" THEN FALSE
         ELSE IF f.kind = "subject" THEN post.subject_t
         ELSE IF f.kind = "has_attachment" THEN post.attach = f.flag
         ELSE FALSE
    ELSE IF post.class # "ArxivPaper" THEN FALSE
         ELSE IF f.kind \in {"author", "abstract"} THEN post.text_n
         ELSE FALSE

\* SourceFilter.__call__ of the filter object f
filter_call(f, post) ==
    IF f.class = "_InvertedFilter" THEN ~filter_test(f, post)
    ELSE filter_test(f, post)

\* all(filter_obj(post) for filter_obj in filters)
all_filters(filters, post) ==
    \A i \in 1..Len(filters) : filter_call(filters[i], post)

\* _build_imap_search_criteria: the search keys, in filter order
RECURSIVE imap_criteria_parts(_)
imap_criteria_parts(filters) ==
    IF filters = <<>> THEN <<>>
    ELSE (IF Head(filters).kind = "subject" THEN <<"SUBJECT">> ELSE <<>>)
         \o imap_criteria_parts(Tail(filters))

build_imap_search_criteria(filters) ==
    IF imap_criteria_parts(filters) = <<>> THEN <<"SINCE">>
    ELSE imap_criteria_parts(filters)

\* the IMAP server answering SEARCH: the messages that meet every key
imap_search(server, criteria) ==
    SelectSeq(server, LAMBDA m :
        \A i \in 1..Len(criteria) :
            IF criteria[i] = "SUBJECT" THEN m.subject_t ELSE m.recent)

\* _fetch_emails_imap: the filters reach the server as search criteria
fetch_emails_imap(server, filters) ==
    imap_search(server, build_imap_search_criteria(filters))

\* _fetch_emails_pop3: every message of the server is retrieved
fetch_emails_pop3(server, filters) == server

\* Arxiv.construct_query: the query parts, in filter order
RECURSIVE construct_query(_)
construct_query(filters) ==
    IF filters = <<>> THEN <<>>
    ELSE (IF Head(filters).kind = "author" THEN <<"au">>
          ELSE IF Head(filters).kind = "abstract" THEN <<"abs">>
          ELSE <<>>)
         \o construct_query(Tail(filters))

\* _fetch_papers_from_arxiv: the entries the API returns for the query
fetch_papers_from_arxiv(server, query) ==
    SelectSeq(server, LAMBDA e :
        \A i \in 1..Len(query) :
            IF query[i] = "au" THEN e.author_n
            ELSE IF query[i] = "abs" THEN e.text_n
            ELSE e.recent)

\* how a pull() ends
Pulled(raises, posts) == [raises |-> raises, posts |-> posts]

\* Mailbox.pull(filters)
mailbox_pull(protocol, server, filters) ==
    LET mail_filters == SelectSeq(filters, LAMBDA f : f.class = "MailFilter")
        other_filters == SelectSeq(filters, LAMBDA f : f.class # "MailFilter")
        emails == IF protocol = "imap"
                  THEN fetch_emails_imap(server, mail_filters)
                  ELSE fetch_emails_pop3(server, mail_filters)
    IN  Pulled(FALSE,
               SelectSeq(emails, LAMBDA m : all_filters(other_filters, m)))

\* Arxiv.pull(filters)
arxiv_pull(server, filters) ==
    LET arxiv_filters == SelectSeq(filters, LAMBDA f : f.class = "ArxivFilter")
        other_filters == SelectSeq(filters, LAMBDA f : f.class # "ArxivFilter")
        query == IF construct_query(arxiv_filters) = <<>>
                 THEN <<"submittedDate">>
                 ELSE construct_query(arxiv_filters)
        papers == fetch_papers_from_arxiv(server, query)
    IN  IF filters = <<>> THEN Pulled(TRUE, <<>>)
        ELSE Pulled(FALSE,
                    SelectSeq(papers, LAMBDA e : all_filters(other_filters, e)))

\* Source.pull(filters) of the source of kind `kind`
pull(kind, server, filters) ==
    IF kind = "arxiv" THEN arxiv_pull(server, filters)
    ELSE mailbox_pull(kind, server, filters)

\* a source over `server` on which pull() has not been called
Puller(kind, server) ==
    [kind |-> kind, server |-> server, op |-> "none", filters |-> <<>>,
     raises |-> FALSE, posts |-> <<>>]

\* ------------------------------------------------- filter composition
\* A filter object is <<"F", i>> (the i-th base filter, a MailFilter or an
\* ArxivFilter), <<"AND", left, right>> and <<"OR", left, right>>
\* (_CombinedFilter) or <<"NOT", filter_obj>> (_InvertedFilter). What a base
\* filter does on the post is v[i]: it returns "True" or "False", or it
\* "raises" (ArxivFilter of kind DATE reads post.__published_date).
BaseFilters == 1..3
Answers == {"True", "False", "raises"}

\* __and__, __or__ of the three filter classes
filter_and(f, other) == <<"AND", f, other>>
filter_or(f, other) == <<"OR", f, other>>

\* __invert__: _InvertedFilter returns the filter it wraps
filter_invert(f) == IF f[1] = "NOT" THEN f[2] ELSE <<"NOT", f>>

\* _CombinedFilter.__call__ once left(post) is known; right is what
\* right(post) does when it is called
CombinedFilter_call(operator, left, right) ==
    IF left = "raises" THEN "raises"
    ELSE IF operator = "AND" THEN (IF left = "False" THEN left ELSE right)
    ELSE (IF left = "True" THEN left ELSE right)

\* an _InvertedFilter answering as the filter it wraps
InvertedFilter_call_same(x) == x

\* _InvertedFilter.__call__ once filter_obj(post) is known
InvertedFilter_call(x) ==
    IF x = "raises" THEN "raises" ELSE IF x = "True" THEN "False" ELSE "True"

\* f(post)
RECURSIVE filter_answer(_, _)
filter_answer(f, v) ==
    IF f[1] = "F" THEN v[f[2]]
    ELSE IF f[1] = "NOT" THEN InvertedFilter_call(filter_answer(f[2], v))
    ELSE CombinedFilter_call(f[1], filter_answer(f[2], v),
                             filter_answer(f[3], v))

Laws == {"double negation", "De Morgan and", "De Morgan or",
         "associativity and", "associativity or"}

\* the two filter objects a law equates, built as a caller builds them
LawSides(law, a, b, c) ==
    CASE law = "double negation" ->
            <<filter_invert(filter_invert(a)), a>>
      [] law = "De Morgan and" ->
            <<filter_invert(filter_and(a, b)),
              filter_or(filter_invert(a), filter_invert(b))>>
      [] law = "De Morgan or" ->
            <<filter_invert(filter_or(a, b)),
              filter_and(filter_invert(a), filter_invert(b))>>
      [] law = "associativity and" ->
            <<filter_and(filter_and(a, b), c), filter_and(a, filter_and(b, c))>>
      [] OTHER ->
            <<filter_or(filter_or(a, b), c), filter_or(a, filter_or(b, c))>>

\* three filters and a post, nothing evaluated yet
Composed(a, b, c, v) ==
    [a |-> a, b |-> b, c |-> c, v |-> v, law |-> "none",
     lhs |-> "none", rhs |-> "none"]

\* ------------------------------------------------- post serialization
\* A string is the sequence of its characters; a datetime is its second, its
\* microsecond and its UTC offset ("naive": it has none).
Datetime(second, microsecond, tz) ==
    [second |-> second, microsecond |-> microsecond, tz |-> tz]

\* datetime.isoformat(): the microseconds are written when they are not 0,
\* the offset when there is one
isoformat(d) ==
    <<d.second>>
    \o (IF d.microsecond = 0 THEN <<>> ELSE <<".", d.microsecond>>)
    \o (IF d.tz = "naive" THEN <<>> ELSE <<"+", d.tz>>)

\* datetime.fromisoformat()
fromisoformat(t) ==
    LET has_micro == Len(t) >= 3 /\ t[2] = "."
        rest == IF has_micro THEN SubSeq(t, 4, Len(t)) ELSE Tail(t)
    IN  Datetime(t[1], IF has_micro THEN t[3] ELSE 0,
                 IF rest = <<>> THEN "naive" ELSE rest[2])

\* ",".join(strings)
RECURSIVE str_join(_)
str_join(strings) ==
    IF strings = <<>> THEN <<>>
    ELSE IF Len(strings) = 1 THEN strings[1]
    ELSE strings[1] \o <<",">> \o str_join(Tail(strings))

\* string.split(","), `piece` being the characters read since the last comma
RECURSIVE str_split_from(_, _)
str_split_from(string, piece) ==
    IF string = <<>> THEN <<piece>>
    ELSE IF Head(string) = ","
         THEN <<piece>> \o str_split_from(Tail(string), <<>>)
         ELSE str_split_from(Tail(string), Append(piece, Head(string)))

str_split(string) == str_split_from(string, <<>>)

\* Mail.serializable_object, ArxivPaper.serializable_object
serializable_object(x) ==
    IF x.class = "Mail"
    THEN [id |-> x.id, url |-> x.url, subject |-> x.subject, body |-> x.body,
          attachments |-> str_join(x.attachments),
          received_date |-> isoformat(x.published_date),
          pulled_date |-> isoformat(x.pulled_date),
          source |-> x.source]
    ELSE [id |-> x.id, url |-> x.url, title |-> x.title,
          paper_url |-> x.paper_url,
          publish_date |-> isoformat(x.published_date),
          pull_date |-> isoformat(x.pulled_date),
          source |-> x.source, abstract |-> x.abstract]

\* Mail.from_serializable_object, ArxivPaper.from_serializable_object; an
\* ArxivPaper has the one attachment paper_url
from_serializable_object(class, obj) ==
    IF class = "Mail"
    THEN [class |-> "Mail", id |-> obj.id, url |-> obj.url,
          subject |-> obj.subject, body |-> obj.body,
          attachments |-> IF obj.attachments # <<>>
                          THEN str_split(obj.attachments) ELSE <<>>,
          published_date |-> fromisoformat(obj.received_date),
          pulled_date |-> fromisoformat(obj.pulled_date),
          source |-> obj.source]
    ELSE [class |-> "ArxivPaper", id |-> obj.id, url |-> obj.url,
          paper_url |-> obj.paper_url, title |-> obj.title,
          abstract |-> obj.abstract,
          attachments |-> <<obj.paper_url>>,
          published_date |-> fromisoformat(obj.publish_date),
          pulled_date |-> fromisoformat(obj.pull_date),
          source |-> obj.source]

\* a post that has not been serialized
RoundTrip(x) == [x |-> x, op |-> "none", y |-> x]

\* Mail(id=, url=, subject=, body=, attachments=, received_date=,
\* pulled_date=, source=)
Mail(attachments, received_date, pulled_date) ==
    [class |-> "Mail", id |-> <<"1">>, url |-> <<"u">>, subject |-> <<"s">>,
     body |-> <<"b">>, attachments |-> attachments,
     published_date |-> received_date, pulled_date |-> pulled_date,
     source |-> <<"m">>]

\* ArxivPaper(id=, url=, paper_url=, publish_date=, title=, abstract=,
\* pulled_date=, source=)
ArxivPaper(paper_url, publish_date, pulled_date) ==
    [class |-> "ArxivPaper", id |-> <<"1">>, url |-> <<"u">>,
     paper_url |-> paper_url, title |-> <<"t">>, abstract |-> <<"a">>,
     attachments |-> <<paper_url>>,
     published_date |-> publish_date, pulled_date |-> pulled_date,
     source |-> <<"x">>]

\* --------------------------------------------------------- the Database
Tables == {"topics", "summaries", "analyses", "evaluations"}
RowIds == {"1", "2"}

\* Database(db_path): the four tables exist and are empty. `clock` is what
\* datetime.now() returns, a timestamp later than every timestamp a caller
\* passes (0); `last` and `stores` are not fields of the object: per table
\* and id the columns and timestamp of the last store call, and the number
\* of store calls made
Database ==
    [rows |-> [t \in Tables |-> {}],
     clock |-> 1,
     stores |-> 0,
     last |-> [t \in Tables |-> [id \in RowIds |-> None]]]

\* ts = timestamp or datetime.now(timezone.utc).isoformat()
timestamp_or_now(timestamp, now) ==
    IF timestamp = None THEN now ELSE timestamp[1]

\* an INSERT that leaves the rows of the same id in the table
insert_into(rows, row) == rows \cup {row}

\* REPLACE INTO table ... on a table whose primary key is id
replace_into(rows, row) == {r \in rows : r.id # row.id} \cup {row}

store_topic(db, id, description, timestamp, now) ==
    [db EXCEPT !.topics =
        replace_into(@, [id |-> id, columns |-> <<description>>,
                         timestamp |-> timestamp_or_now(timestamp, now)])]

store_summary(db, id, summary, original_content, keywords, category_of_the_source, timestamp, now) ==
    [db EXCEPT !.summaries =
        replace_into(@, [id |-> id,
                         columns |-> <<summary, original_content, keywords,
                                       category_of_the_source>>,
                         timestamp |-> timestamp_or_now(timestamp, now)])]

store_analysis(db, id, related_topics, envisaged_interaction, timestamp, now) ==
    [db EXCEPT !.analyses =
        replace_into(@, [id |-> id,
                         columns |-> <<related_topics, envisaged_interaction>>,
                         timestamp |-> timestamp_or_now(timestamp, now)])]

store_evaluation(db, id, relevance, feasibility, importance, timestamp, now) ==
    [db EXCEPT !.evaluations =
        replace_into(@, [id |-> id,
                         columns |-> <<relevance, feasibility, importance>>,
                         timestamp |-> timestamp_or_now(timestamp, now)])]

\* get_topics, get_summaries, get_analyses, get_evaluations: the rows of the
\* table, in no order the code fixes
get_topics(db) == db.topics
get_summaries(db) == db.summaries
get_analyses(db) == db.analyses
get_evaluations(db) == db.evaluations

get_rows(db, table) ==
    CASE table = "topics" -> get_topics(db)
      [] table = "summaries" -> get_summaries(db)
      [] table = "analyses" -> get_analyses(db)
      [] OTHER -> get_evaluations(db)

PureInit ==
    /\ puller = Puller("imap", <<>>)
    /\ roundtrip = RoundTrip(Mail(<<>>, Datetime(0, 0, "naive"),
                                  Datetime(0, 0, "naive")))
    /\ database = Database
    /\ composed = Composed(<<"F", 1>>, <<"F", 2>>, <<"F", 3>>,
                           [i \in BaseFilters |-> "True"])

\* --------------------------------------------------------------- actions
\* what a source outside the loop of _pull_data does: nothing is read of it
NotPulled == [raises |-> TRUE, posts |-> <<>>, store_fail_at |-> 0]

NothingObserved ==
    [pull_calls |-> <<>>, pulls |-> [s \in SourceIds |-> NotPulled],
     failing |-> {}, raise_at |-> "none", held |-> 0]

AutomatonInit ==
    /\ self = NewSelf
    /\ store = <<>>
    /\ pc = "idle"
    /\ run_result = "none"
    /\ run_calls = 0
    /\ instances = 1
    /\ handlers_run = <<>>
    /\ last_transition = None
    /\ last_save_args = None
    /\ last_saved_state = None
    /\ latest_saved = None
    /\ restored = NotCalled
    /\ observed = NothingObserved
    /\ save_failed = FALSE

\* a fresh Automaton over the datastore of the repository, whose
\* latest-checkpoint query is _query_latest_checkpoint; no AutoRetry in use
Init ==
    /\ AutomatonInit
    /\ query_outcome = [raises |-> FALSE, data |-> query_latest_checkpoint(store)]
    /\ registry = PluginRegistry({}, RepositoryFactory)
    /\ ar = AutoRetry(5, 2, 10)
    /\ frame = NoCall
    /\ PureInit

\* Automaton(...): a new object over the same datastore (the process was
\* restarted, possibly killed in the middle of a run)
NewAutomaton ==
    /\ instances < MaxInstances
    /\ instances' = instances + 1
    /\ self' = NewSelf
    /\ pc' = "idle"
    /\ run_result' = "none"
    /\ run_calls' = 0
    /\ handlers_run' = <<>>
    /\ last_transition' = None
    /\ last_save_args' = None
    /\ last_saved_state' = None
    /\ restored' = NotCalled
    /\ observed' = NothingObserved
    /\ UNCHANGED <<store, latest_saved, otherVars>>

\* the caller calls run(): the loop is entered, or left at once in DONE
RunCall ==
    /\ pc = "idle"
    /\ run_calls' = IF run_calls < 2 THEN run_calls + 1 ELSE 2
    /\ handlers_run' = <<>>
    /\ pc' = IF loop_test(self) THEN "running" ELSE "idle"
    /\ run_result' = IF loop_test(self) THEN "none" ELSE "returned"
    /\ restored' = NotCalled
    /\ last_transition' = None
    /\ last_save_args' = None
    /\ observed' = NothingObserved
    /\ UNCHANGED <<self, store, instances, last_saved_state, latest_saved,
                   otherVars>>

\* the rest of one loop iteration after handler h left the fields a2 and
\* raised the error `raised` ("none": it returned): the save_checkpoint call,
\* the except clause of run(), and the loop test
Iterate(h, a2, raised) ==
    \E save_ok \in BOOLEAN, bad \in SUBSET (1..Len(a2.pulled_posts)) :
        LET completed == raised = "none"
            saving == completed /\ SaveGuard(a2)
            \* save_ok and bad are read only when the call is made and returns
            canonical == /\ ~saving => save_ok
                         /\ ~(saving /\ save_ok) => bad = {}
            failed == IF ~completed THEN "handler"
                      ELSE IF saving /\ ~save_ok THEN "save" ELSE "none"
            err == IF ~completed THEN raised ELSE "CheckpointError"
            a3 == IF failed = "none" THEN a2
                  ELSE handle_error([a2 EXCEPT !.last_error = err])
        IN  /\ canonical
            /\ self' = a3
            /\ store' = IF saving /\ save_ok
                        THEN store_checkpoint(store, checkpoint_data(a2, bad))
                        ELSE store
            /\ pc' = IF failed # "none" \/ ~loop_test(a3)
                     THEN "idle" ELSE "running"
            /\ run_result' = IF failed # "none" THEN "raised"
                             ELSE IF loop_test(a3) THEN "none" ELSE "returned"
            /\ handlers_run' = Append(handlers_run, h)
            /\ last_transition' = IF completed THEN Some(SaveArgs(a2)) ELSE None
            /\ last_save_args' = IF saving THEN Some(SaveArgs(a2)) ELSE None
            /\ last_saved_state' = IF saving /\ save_ok
                                   THEN Some(a2.state)
                                   ELSE last_saved_state
            /\ latest_saved' = IF saving /\ save_ok
                               THEN Some(checkpoint_data(a2, bad))
                               ELSE latest_saved
            /\ UNCHANGED <<run_calls, instances, otherVars>>

RaisePoints == {"none", "entry", "exit"}

\* the iteration of _initialize; ck is what restore_checkpoint returns when
\* it is reached, factories the factories the registry may be working with
InitializeWith(ck, factories) ==
    /\ pc = "running"
    /\ self.state = INIT
    /\ \E enabled \in SUBSET SourceIds,
          fail_at \in {"none", "config", "datastore", "plugins"},
          k \in 0..Len(SourceOrder),
          made \in factories :
          /\ k <= Len(register_sources(enabled, made))
          /\ fail_at # "plugins" => k = 0
          /\ restored' = IF fail_at \in {"none", "plugins"}
                         THEN ck ELSE NotCalled
          /\ observed' = [NothingObserved EXCEPT !.raise_at = fail_at]
          /\ Iterate(INIT, initialize(self, enabled, fail_at, k, ck, made),
                     initialize_error(fail_at, ck))

Initialize == InitializeWith(restore_checkpoint(store), {RepositoryFactory})

PullData ==
    /\ pc = "running"
    /\ self.state = PULLING
    /\ \E raise_at \in RaisePoints :
       \E pulls \in [SourceIds -> UNION {PullOutcomes(s) : s \in SourceIds}] :
          /\ \A s \in SourceIds : pulls[s] \in PullOutcomes(s)
          /\ raise_at = "entry" => \A s \in SourceIds : pulls[s] = NotPulled
          /\ \A s \in SourceIds :
                (\A i \in 1..Len(pull_targets(self)) : pull_targets(self)[i] # s)
                    => pulls[s] = NotPulled
          /\ observed' = [NothingObserved EXCEPT
                             !.pull_calls = IF raise_at = "entry" THEN <<>>
                                            ELSE pull_targets(self),
                             !.pulls = pulls,
                             !.raise_at = raise_at,
                             !.held = Len(self.pulled_posts)]
          /\ Iterate(PULLING, pull_data(self, pulls, raise_at),
                     IF raise_at = "none" THEN "none" ELSE "StageError")
    /\ restored' = NotCalled

Summarize ==
    /\ pc = "running"
    /\ self.state = SUMMARIZING
    /\ \E raise_at \in RaisePoints :
       \E failing \in SUBSET (1..Len(self.pulled_posts)) :
          /\ raise_at = "entry" => failing = {}
          /\ observed' = [NothingObserved EXCEPT
                             !.failing = failing,
                             !.raise_at = raise_at,
                             !.held = Len(self.processed_insights)]
          /\ Iterate(SUMMARIZING, summarize(self, failing, raise_at),
                  IF raise_at = "none" THEN "none" ELSE "StageError")
    /\ restored' = NotCalled

EvaluateModel ==
    /\ pc = "running"
    /\ self.state = EVALUATING
    /\ \E raise_at \in RaisePoints :
          /\ observed' = [NothingObserved EXCEPT !.raise_at = raise_at]
          /\ Iterate(EVALUATING, evaluate_model(self, raise_at),
                     IF raise_at = "none" THEN "none" ELSE "StageError")
    /\ restored' = NotCalled

HandleFeedback ==
    /\ pc = "running"
    /\ self.state = FEEDBACK
    /\ \E raise_at \in RaisePoints :
          /\ observed' = [NothingObserved EXCEPT !.raise_at = raise_at]
          /\ Iterate(FEEDBACK, handle_feedback(self, raise_at),
                     IF raise_at = "none" THEN "none" ELSE "StageError")
    /\ restored' = NotCalled

\* one Automaton object, from construction on
Next ==
    \/ RunCall
    \/ Initialize
    \/ PullData
    \/ Summarize
    \/ EvaluateModel
    \/ HandleFeedback

Spec == Init /\ [][Next]_vars

\* one iteration of the loop of run()
RunStep ==
    \/ Initialize
    \/ PullData
    \/ Summarize
    \/ EvaluateModel
    \/ HandleFeedback

\* Spec with the thread of run() going on: inside run() the next iteration
\* of the loop is eventually executed (a handler is one step: it returns or
\* raises)
SpecLive == Spec /\ WF_vars(RunStep)

\* the process may be restarted: a new Automaton object over the same datastore
NextRestart ==
    \/ NewAutomaton
    \/ Next

SpecRestart == Init /\ [][NextRestart]_vars

\* ------------------------------------------------ the checkpoint manager
\* the states of an Automaton that a caller hands to save_checkpoint
SaveInputs ==
    {a \in [state : State, retry_count : 0..max_retries,
            user_model : {EmptyUserModel},
            pulled_posts : PullResults(SourceOrder[1]),
            processed_insights : {<<>>},
            notifications_sent : {<<>>}] : TRUE}

\* save_checkpoint(...) called on the manager: it returns, or it raises
\* CheckpointError and the store keeps what it held
SaveCheckpoint ==
    /\ \E a \in SaveInputs, save_ok \in BOOLEAN,
          bad \in SUBSET (1..MaxPosts) :
          /\ bad \subseteq 1..Len(a.pulled_posts)
          /\ ~save_ok => bad = {}
          /\ store' = IF save_ok
                      THEN store_checkpoint(store, checkpoint_data(a, bad))
                      ELSE store
          /\ latest_saved' = IF save_ok THEN Some(checkpoint_data(a, bad))
                             ELSE latest_saved
          /\ save_failed' = (save_failed \/ ~save_ok)
    /\ restored' = NotCalled
    /\ UNCHANGED <<automatonVars, query_outcome, registry, retryVars,
                   pureVars>>

\* restore_checkpoint() called on the manager
RestoreCheckpoint ==
    /\ restored' = restore_checkpoint(store)
    /\ UNCHANGED <<automatonVars, store, latest_saved, save_failed,
                   query_outcome, registry, retryVars,
                   pureVars>>

NextManager ==
    \/ SaveCheckpoint
    \/ RestoreCheckpoint

\* a CheckpointManager over the datastore of the repository, used directly
SpecManager == Init /\ [][NextManager]_vars

\* ----------------------------------- _initialize over a datastore that
\* ----------------------------------- holds a checkpoint record
MaxStored == 2      \* posts in the stored checkpoint record

\* an entry of the stored pulled_posts: one that serialize_posts wrote, and
\* one that no Post can be built from
ReadableEntry == SerializePost([id |-> 1, source |-> SourceOrder[1]])
UnreadableEntry == [id |-> 0, source |-> SourceOrder[1], content |-> <<>>]

StoredPosts ==
    UNION {[1..n -> {ReadableEntry, UnreadableEntry}] : n \in 0..MaxStored}

\* the records the latest-checkpoint query can return: any state value
\* (valid or not), any retry count, any stored posts
StoredRecords ==
    [state : {PULLING, FEEDBACK, "corrupt"},
     retry_count : {0, 2},
     user_model : {EmptyUserModel},
     pulled_posts : StoredPosts,
     processed_insights : {<<>>},
     notifications_sent : {<<>>}]

\* how the latest-checkpoint query can end: it raises, it finds nothing, or
\* it returns a record
QueryOutcomes ==
    {[raises |-> TRUE, data |-> None], [raises |-> FALSE, data |-> None]}
    \cup {[raises |-> FALSE, data |-> Some(r)] : r \in StoredRecords}

InitStored ==
    /\ AutomatonInit
    /\ query_outcome \in QueryOutcomes
    /\ registry = PluginRegistry({}, RepositoryFactory)
    /\ ar = AutoRetry(5, 2, 10)
    /\ frame = NoCall
    /\ PureInit

\* the iteration of _initialize when the query ends as query_outcome
InitializeStored ==
    InitializeWith(restore_from(query_outcome), {RepositoryFactory})

NextStored ==
    \/ RunCall
    \/ InitializeStored

\* run() up to the end of Init, over a datastore whose query ends as drawn
SpecStored == InitStored /\ [][NextStored]_vars

\* -------------------------------------------------- the AutoRetry object
MaxRetrys == 3      \* largest max_retrys of an executor
MinRetrys == -1     \* smallest max_retrys of an executor: any int is accepted
MaxFails == 3       \* failures of the wrapped function before it returns
MaxOps == 3         \* call() and reset() operations made on one executor

IncrementFactors == {1, 2}
DecrementNums == {5, 10, 20}

InitRetry ==
    /\ AutomatonInit
    /\ query_outcome = [raises |-> FALSE, data |-> query_latest_checkpoint(store)]
    /\ \E n \in MinRetrys..MaxRetrys, g \in IncrementFactors,
          d \in DecrementNums :
          ar = AutoRetry(n, g, d)
    /\ registry = PluginRegistry({}, RepositoryFactory)
    /\ frame = NoCall
    /\ PureInit

\* call(): the wrapped function raises on its first `fails` invocations
Call ==
    /\ frame.ops < MaxOps
    /\ \E fails \in 0..MaxFails :
          LET e == call(ar, fails)
          IN  /\ ar' = e.ar
              /\ frame' = [op |-> "call", ops |-> frame.ops + 1,
                           fails |-> fails, outcome |-> e.outcome,
                           exceptions |-> e.exceptions,
                           invocations |-> e.invocations,
                           sleeps |-> e.sleeps]
    /\ UNCHANGED <<automatonVars, store, latest_saved, restored, save_failed,
                   query_outcome, registry, pureVars>>

\* reset()
Reset ==
    /\ frame.ops < MaxOps
    /\ ar' = reset(ar)
    /\ frame' = [NoCall EXCEPT !.op = "reset", !.ops = frame.ops + 1]
    /\ UNCHANGED <<automatonVars, store, latest_saved, restored, save_failed,
                   query_outcome, registry, pureVars>>

NextRetry ==
    \/ Call
    \/ Reset

\* one AutoRetry object, from construction on
SpecRetry == InitRetry /\ [][NextRetry]_vars

\* ------------------------------- one run() with any plugin factory
\* the factories of sources a registry may be working with
SourceFactories ==
    {made \in [PluginIds -> FactoryOutcomes] :
        \A id \in PluginIds \ SourceIds : made[id] = RepositoryFactory[id]}

\* the first run() call on the Automaton
FirstRunCall ==
    /\ run_calls = 0
    /\ RunCall

\* the iteration of _initialize, the factory being any of SourceFactories
InitializePlugins ==
    InitializeWith(restore_checkpoint(store), SourceFactories)

NextPipeline ==
    \/ FirstRunCall
    \/ InitializePlugins
    \/ PullData
    \/ Summarize
    \/ EvaluateModel
    \/ HandleFeedback

\* the first run() of a fresh Automaton whose registry works with a factory
\* that builds, fails to build or refuses each enabled source
SpecPipeline == Init /\ [][NextPipeline]_vars

\* ------------------------------- run() called again after it raised
\* a factory that builds the first source and, like the repository's, nothing
\* else
FirstSourceFactory ==
    [id \in PluginIds |->
        IF id = SourceOrder[1] THEN "object" ELSE RepositoryFactory[id]]

\* the iteration of _initialize, the factory being FirstSourceFactory
InitializeFirstSource ==
    InitializeWith(restore_checkpoint(store), {FirstSourceFactory})

NextRerun ==
    \/ RunCall
    \/ InitializeFirstSource
    \/ PullData
    \/ Summarize
    \/ EvaluateModel
    \/ HandleFeedback

\* every run() of one Automaton whose registry works with FirstSourceFactory:
\* a run() that follows one that raised re-executes the stage that raised,
\* over what the earlier attempt left in the accumulators
SpecRerun == Init /\ [][NextRerun]_vars

\* ------------------------------------------------- the PluginRegistry

InitRegistry ==
    /\ AutomatonInit
    /\ query_outcome = [raises |-> FALSE, data |-> query_latest_checkpoint(store)]
    /\ \E enabled \in SUBSET PluginIds, made \in [PluginIds -> FactoryOutcomes] :
          registry = PluginRegistry(enabled, made)
    /\ ar = AutoRetry(5, 2, 10)
    /\ frame = NoCall
    /\ PureInit

\* register_all_plugins() on a registry it has not been called on
RegisterAllPlugins ==
    /\ registry.outcome = "none"
    /\ \E loop_fails \in {"none", "sources", "processors", "notifiers"} :
          registry' = register_all_plugins(
                          [registry EXCEPT !.loop_fails = loop_fails], loop_fails)
    /\ UNCHANGED <<automatonVars, store, latest_saved, restored, save_failed,
                   query_outcome, retryVars, pureVars>>

NextRegistry == RegisterAllPlugins

\* one PluginRegistry over any configuration and any factory, the factory
\* of the repository among them
SpecRegistry == InitRegistry /\ [][NextRegistry]_vars

\* ------------------------------------------------ a Source on its own
MaxMails == 2       \* messages or entries the server of a source holds
MaxFilters == 2     \* filters handed to one pull()

\* the automaton, the manager, the registry and the executor, not in use
ObjectsInit ==
    /\ AutomatonInit
    /\ query_outcome = [raises |-> FALSE, data |-> query_latest_checkpoint(store)]
    /\ registry = PluginRegistry({}, RepositoryFactory)
    /\ ar = AutoRetry(5, 2, 10)
    /\ frame = NoCall

SeqsUpTo(S, n) == UNION {[1..k -> S] : k \in 0..n}

\* the filter objects a caller may hand to pull(): the source's own class,
\* the class of the other source, and inverted filters
FilterObjects ==
    LET own == {SourceFilter("MailFilter", "subject", TRUE),
                SourceFilter("MailFilter", "has_attachment", TRUE),
                SourceFilter("MailFilter", "has_attachment", FALSE),
                SourceFilter("ArxivFilter", "author", TRUE),
                SourceFilter("ArxivFilter", "abstract", TRUE)}
    IN  own \cup {InvertedFilter(SourceFilter("MailFilter", "subject", TRUE)),
                  InvertedFilter(SourceFilter("ArxivFilter", "abstract", TRUE))}

InitPuller ==
    /\ ObjectsInit
    /\ \E kind \in {"imap", "pop3", "arxiv"} :
       \E server \in SeqsUpTo(IF kind = "arxiv" THEN PaperFields ELSE MailFields,
                              MaxMails) :
          puller = Puller(kind, server)
    /\ composed = Composed(<<"F", 1>>, <<"F", 2>>, <<"F", 3>>,
                           [i \in BaseFilters |-> "True"])
    /\ roundtrip = RoundTrip(Mail(<<>>, Datetime(0, 0, "naive"),
                                  Datetime(0, 0, "naive")))
    /\ database = Database

\* pull(filters) on a source it has not been called on
Pull ==
    /\ puller.op = "none"
    /\ \E filters \in SeqsUpTo(FilterObjects, MaxFilters) :
          LET r == pull(puller.kind, puller.server, filters)
          IN  puller' = [puller EXCEPT !.op = "pull", !.filters = filters,
                                       !.raises = r.raises, !.posts = r.posts]
    /\ UNCHANGED <<automatonVars, store, latest_saved, restored, save_failed,
                   query_outcome, registry, retryVars, composed,
                   roundtrip, database>>

NextPuller == Pull

\* one Mailbox (IMAP or POP3) or Arxiv source over any server content
SpecPuller == InitPuller /\ [][NextPuller]_vars

\* ------------------------------------------- filters composed by a caller
\* the filters a law is evaluated on: base filters, inverted filters and
\* combined filters
Operands ==
    {<<"F", i>> : i \in BaseFilters}
    \cup {filter_invert(<<"F", i>>) : i \in BaseFilters}
    \cup {filter_and(<<"F", 1>>, <<"F", 2>>), filter_or(<<"F", 2>>, <<"F", 3>>)}

InitFilters ==
    /\ ObjectsInit
    /\ puller = Puller("imap", <<>>)
    /\ \E a \in Operands, b \in Operands, c \in Operands,
          v \in [BaseFilters -> Answers] :
          composed = Composed(a, b, c, v)
    /\ roundtrip = RoundTrip(Mail(<<>>, Datetime(0, 0, "naive"),
                                  Datetime(0, 0, "naive")))
    /\ database = Database

\* the two sides of one law are built and called on the post
EvaluateLaw ==
    /\ composed.law = "none"
    /\ \E law \in Laws :
          LET sides == LawSides(law, composed.a, composed.b, composed.c)
          IN  composed' = [composed EXCEPT
                              !.law = law,
                              !.lhs = filter_answer(sides[1], composed.v),
                              !.rhs = filter_answer(sides[2], composed.v)]
    /\ UNCHANGED <<automatonVars, store, latest_saved, restored, save_failed,
                   query_outcome, registry, retryVars, puller,
                   roundtrip, database>>

NextFilters == EvaluateLaw

\* filters composed with &, | and ~ and called on one post
SpecFilters == InitFilters /\ [][NextFilters]_vars

\* ------------------------------------------- a post written and read back
MaxChars == 2         \* characters of an attachment string
MaxAttachments == 2   \* attachment strings of a Mail

\* attachment strings: a letter and the comma are their characters
Strings == SeqsUpTo({"a", ","}, MaxChars)

Datetimes ==
    {Datetime(s, us, tz) : s \in {0, 1}, us \in {0, 5}, tz \in {"naive", "00:00"}}

InitRoundTrip ==
    /\ ObjectsInit
    /\ puller = Puller("imap", <<>>)
    /\ composed = Composed(<<"F", 1>>, <<"F", 2>>, <<"F", 3>>,
                           [i \in BaseFilters |-> "True"])
    /\ \E published \in Datetimes, pulled \in Datetimes :
          \/ \E attachments \in SeqsUpTo(Strings, MaxAttachments) :
                roundtrip = RoundTrip(Mail(attachments, published, pulled))
          \/ \E paper_url \in Strings :
                roundtrip = RoundTrip(ArxivPaper(paper_url, published, pulled))
    /\ database = Database

\* cls.from_serializable_object(x.serializable_object())
SerializeAndRead ==
    /\ roundtrip.op = "none"
    /\ roundtrip' = [roundtrip EXCEPT
                        !.op = "read back",
                        !.y = from_serializable_object(
                                  roundtrip.x.class,
                                  serializable_object(roundtrip.x))]
    /\ UNCHANGED <<automatonVars, store, latest_saved, restored, save_failed,
                   query_outcome, registry, retryVars, puller, composed,
                   database>>

NextRoundTrip == SerializeAndRead

\* one Mail or ArxivPaper serialized and read back
SpecRoundTrip == InitRoundTrip /\ [][NextRoundTrip]_vars

\* ------------------------------------------------ a Database on its own
MaxStores == 3      \* store_* calls made on one Database

\* what a caller passes for a column, and for the timestamp (None: now)
ColumnValues == {"x", "y"}
Timestamps == {None, Some(0)}

InitDatabase ==
    /\ ObjectsInit
    /\ puller = Puller("imap", <<>>)
    /\ composed = Composed(<<"F", 1>>, <<"F", 2>>, <<"F", 3>>,
                           [i \in BaseFilters |-> "True"])
    /\ roundtrip = RoundTrip(Mail(<<>>, Datetime(0, 0, "naive"),
                                  Datetime(0, 0, "naive")))
    /\ database = Database

\* the store call `table` names has been made with id, the columns and
\* timestamp and has left the rows `rows`
Stored(table, id, columns, timestamp, rows) ==
    /\ database.stores < MaxStores
    /\ database' =
          [rows |-> rows,
           clock |-> database.clock + 1,
           stores |-> database.stores + 1,
           last |-> [database.last EXCEPT ![table][id] =
                        Some([columns |-> columns,
                              timestamp |-> IF timestamp = None
                                            THEN database.clock
                                            ELSE timestamp[1]])]]
    /\ UNCHANGED <<automatonVars, store, latest_saved, restored, save_failed,
                   query_outcome, registry, retryVars, puller, composed,
                   roundtrip>>

StoreTopic ==
    \E id \in RowIds, v \in ColumnValues, timestamp \in Timestamps :
        Stored("topics", id, <<v>>, timestamp,
               store_topic(database.rows, id, v, timestamp, database.clock))

StoreSummary ==
    \E id \in RowIds, v \in ColumnValues, timestamp \in Timestamps :
        Stored("summaries", id, <<v, "o", "k", "c">>, timestamp,
               store_summary(database.rows, id, v, "o", "k", "c", timestamp,
                             database.clock))

StoreAnalysis ==
    \E id \in RowIds, v \in ColumnValues, timestamp \in Timestamps :
        Stored("analyses", id, <<v, "i">>, timestamp,
               store_analysis(database.rows, id, v, "i", timestamp,
                              database.clock))

StoreEvaluation ==
    \E id \in RowIds, v \in ColumnValues, timestamp \in Timestamps :
        Stored("evaluations", id, <<v, "f", "i">>, timestamp,
               store_evaluation(database.rows, id, v, "f", "i", timestamp,
                                database.clock))

NextDatabase ==
    \/ StoreTopic
    \/ StoreSummary
    \/ StoreAnalysis
    \/ StoreEvaluation

\* one Database, from its construction on
SpecDatabase == InitDatabase /\ [][NextDatabase]_vars

TypeOK ==
    /\ self.state \in State
    /\ self.retry_count \in 0..(max_retries + 1)
    /\ pc \in {"idle", "running"}
    /\ run_result \in {"none", "returned", "raised"}

\* ---------------------------------------------------------------- claims
StageOrder == <<INIT, PULLING, SUMMARIZING, EVALUATING, FEEDBACK>>

IsPrefix(p, q) == Len(p) <= Len(q) /\ SubSeq(q, 1, Len(p)) = p

Count(seq, x) == Cardinality({i \in 1..Len(seq) : seq[i] = x})

\* this step is a loop iteration whose handler raised
HandlerRaisedStep ==
    /\ pc = "running"
    /\ handlers_run' = Append(handlers_run, self.state)
    /\ last_transition' = None

\* this step is a loop iteration whose handler returned and whose
\* save_checkpoint call raised
SaveRaisedStep ==
    /\ pc = "running"
    /\ handlers_run' = Append(handlers_run, self.state)
    /\ last_transition' # None
    /\ run_result' = "raised"

\* C1: in the first run() of a fresh Automaton in which nothing has raised
\* (every raise increments retry_count), the handlers executed so far are
\* Init, Pulling, Summarizing, Evaluating, Feedback in this order, one per
\* state passed, and when the run has ended it has returned in Done with all
\* five executed exactly once.
C1_FreshRunOrder ==
    (run_calls = 1 /\ self.retry_count = 0) =>
        /\ IsPrefix(handlers_run, StageOrder)
        /\ Len(handlers_run) = StateRank(self.state)
        /\ pc = "idle" =>
              /\ run_result = "returned"
              /\ self.state = DONE
              /\ handlers_run = StageOrder

C1_Witness ==
    /\ run_calls = 1
    /\ self.retry_count = 0
    /\ pc = "idle"
    /\ run_result = "returned"
    /\ handlers_run = StageOrder
    /\ self.state = DONE

\* C2: when a handler raises and the incremented retry_count is still within
\* max_retries, the same run() goes on with the next loop iteration in the
\* same state.
C2_RetriedInSameRun ==
    [][(HandlerRaisedStep /\ self'.retry_count <= max_retries) =>
          (pc' = "running" /\ self'.state = self.state)]_vars

\* C3: a first run() that ends because a handler raised has invoked that
\* handler max_retries + 1 = 4 times and has forced the state to Done.
C3_FourAttemptsInOneRun ==
    (/\ run_calls = 1
     /\ pc = "idle"
     /\ run_result = "raised"
     /\ last_transition = None
     /\ handlers_run # <<>>) =>
        /\ Count(handlers_run, handlers_run[Len(handlers_run)]) = max_retries + 1
        /\ self.state = DONE

\* C4: whenever run() has raised to its caller, retry_count exceeds
\* max_retries and the state is Done.
C4_RaisesOnlyAfterExhaustion ==
    run_result = "raised" =>
        (self.retry_count > max_retries /\ self.state = DONE)

\* C5: when Init completes in an Automaton started over a datastore whose
\* latest saved checkpoint has a stage state S, the automaton is in S with the
\* checkpoint's processed_insights, user_model and notifications_sent, so that
\* the handler of S is the next one executed.
C5_ResumesFromCheckpoint ==
    [][(/\ pc = "running"
        /\ self.state = INIT
        /\ handlers_run' = Append(handlers_run, INIT)
        /\ last_transition' # None
        /\ latest_saved # None
        /\ latest_saved[1].state \in {PULLING, SUMMARIZING, EVALUATING, FEEDBACK}) =>
          /\ last_transition'[1].state = latest_saved[1].state
          /\ last_transition'[1].processed_insights = latest_saved[1].processed_insights
          /\ last_transition'[1].user_model = latest_saved[1].user_model
          /\ last_transition'[1].notifications_sent = latest_saved[1].notifications_sent]_vars

\* C6: a restore_checkpoint call made after a save_checkpoint call returned
\* yields the checkpoint of the latest such save, equal to it in state,
\* retry_count, user_model, pulled_posts (as serialized), processed_insights
\* and notifications_sent.
C6_RestoreReturnsLatestSave ==
    [][(restored' # NotCalled /\ latest_saved # None) =>
          /\ restored' # None
          /\ restored'[1].state = latest_saved[1].state
          /\ restored'[1].retry_count = latest_saved[1].retry_count
          /\ restored'[1].user_model = latest_saved[1].user_model
          /\ serialize_posts(restored'[1].pulled_posts, {}) = latest_saved[1].pulled_posts
          /\ restored'[1].processed_insights = latest_saved[1].processed_insights
          /\ restored'[1].notifications_sent = latest_saved[1].notifications_sent]_vars

\* C7: in every loop iteration whose handler returned (each handler that
\* returns has changed the state), run() has made the save_checkpoint call,
\* once, with the state, retry_count and accumulators as the handler left
\* them, before the next iteration starts; when the call returned, the
\* checkpoint saved last is the one of that state.
C7_TransitionCheckpointed ==
    last_transition # None =>
        /\ last_save_args = last_transition
        /\ run_result # "raised" => last_saved_state = Some(last_transition[1].state)

C7_Witness ==
    /\ last_transition # None
    /\ last_transition[1].state = EVALUATING
    /\ last_save_args = last_transition
    /\ self.retry_count > 0

\* C8: when retry_count has exceeded max_retries and run() has raised with
\* the state forced to Done, the checkpoint saved last has state Done.
C8_DoneCheckpointed ==
    (run_result = "raised" /\ self.retry_count > max_retries /\ self.state = DONE) =>
        last_saved_state = Some(DONE)

\* C9: when save_checkpoint raises after the handler of state S returned,
\* retry_count is incremented once and, while it is within max_retries, the
\* automaton is in S again.
C9_SaveFailureRetriesStage ==
    [][(SaveRaisedStep /\ self'.retry_count <= max_retries) =>
          (self'.retry_count = self.retry_count + 1 /\ self'.state = self.state)]_vars

\* C10: the states of the checkpoints one Automaton object saves, one after
\* the other, never go backwards in the order
\* Init < Pulling < Summarizing < Evaluating < Feedback < Done.
C10_CheckpointsMonotone ==
    [][(last_saved_state # None /\ last_saved_state' # None) =>
          StateRank(last_saved_state[1]) <= StateRank(last_saved_state'[1])]_vars

C10_Witness ==
    /\ last_saved_state = Some(DONE)
    /\ self.retry_count >= 2
    /\ run_calls = 2

\* C11: once a save_checkpoint call has raised, a restore_checkpoint call
\* returns the checkpoint of the last save_checkpoint call that returned
\* (equal to it in every field, pulled_posts as serialized), and None when no
\* save has returned: never the snapshot of the failed call.
C11_FailedSaveNotRestored ==
    (save_failed /\ restored # NotCalled) =>
        IF latest_saved = None THEN restored = None
        ELSE /\ restored # None
             /\ restored[1].state = latest_saved[1].state
             /\ restored[1].retry_count = latest_saved[1].retry_count
             /\ restored[1].user_model = latest_saved[1].user_model
             /\ serialize_posts(restored[1].pulled_posts, {}) =
                    latest_saved[1].pulled_posts
             /\ restored[1].processed_insights = latest_saved[1].processed_insights
             /\ restored[1].notifications_sent = latest_saved[1].notifications_sent

RECURSIVE ReadablePosts(_)
ReadablePosts(entries) ==
    IF entries = <<>> THEN <<>>
    ELSE LET e == Head(entries)
         IN  (IF e.content = <<e.source, e.id>>
              THEN <<[id |-> e.id, source |-> e.source]>> ELSE <<>>)
             \o ReadablePosts(Tail(entries))

FreshInPulling(n) ==
    [state |-> PULLING, retry_count |-> n, user_model |-> EmptyUserModel,
     pulled_posts |-> <<>>, processed_insights |-> <<>>,
     notifications_sent |-> <<>>]

\* this step is an iteration of Init that calls restore_checkpoint while no
\* save_checkpoint call has returned yet
RestoreBeforeSaveStep ==
    /\ pc = "running"
    /\ self.state = INIT
    /\ restored' # NotCalled
    /\ latest_saved = None

\* C14: restore_checkpoint called before any save returns None,
\* and when Init then completes the automaton is in Pulling with retry_count
\* 0 and empty pulled_posts, processed_insights, user_model and
\* notifications_sent.
C14_FreshStartRetryZero ==
    [][RestoreBeforeSaveStep =>
          /\ restored' = None
          /\ last_transition' # None => last_transition'[1] = FreshInPulling(0)]_vars

\* C15: when run() has returned normally the state is Done.
C15_ReturnsOnlyInDone ==
    run_result = "returned" => self.state = DONE

C15_Witness ==
    /\ run_result = "returned"
    /\ self.state = DONE
    /\ Len(handlers_run) > 0
    /\ handlers_run[Len(handlers_run)] = FEEDBACK

\* C16: a call() of an executor with max_retrys N invokes the wrapped
\* function at most N times (never, when N is not positive), whatever the
\* function does and whatever delay the executor carries from earlier
\* operations.
C16_AtMostNInvocations ==
    frame.op = "call" => frame.invocations <= Max(ar.max_retrys, 0)

C16_Witness ==
    /\ frame.op = "call"
    /\ frame.ops >= 2
    /\ frame.outcome = "AutoRetryError"
    /\ ar.max_retrys >= 2
    /\ frame.invocations = ar.max_retrys

\* C17: a call() whose wrapped function raises exactly k < N times and then
\* returns ends by returning that value after exactly k + 1 invocations,
\* on every executor.
C17_SucceedsAfterKFailures ==
    (frame.op = "call" /\ frame.fails < ar.max_retrys) =>
        /\ frame.outcome = "value"
        /\ frame.invocations = frame.fails + 1

\* C18: a call() whose wrapped function raises on every attempt (N >= 1)
\* ends by raising AutoRetryError after exactly N invocations, the
\* exceptions of the error being the N failures in order.
C18_RaisesAfterNFailures ==
    (frame.op = "call" /\ frame.fails >= ar.max_retrys /\ ar.max_retrys >= 1) =>
        /\ frame.outcome = "AutoRetryError"
        /\ frame.invocations = ar.max_retrys
        /\ frame.exceptions = [i \in 1..ar.max_retrys |-> i]

\* C19: retry_delay is never negative.
C19_DelayNeverNegative ==
    ar.retry_delay >= 0

RECURSIVE Pow(_, _)
Pow(b, e) == IF e = 0 THEN 1 ELSE b * Pow(b, e - 1)

\* C20: reset() sets retry_delay to its initial value and leaves the other
\* fields as they are; a call() leaves every field but retry_delay as it is,
\* counts its failures from 0 (it raises AutoRetryError only after N
\* invocations of its own, and returns the value after k failures at
\* invocation k + 1) and works on the delay the executor had before it: a
\* call that returns leaves the delay it found, multiplied by the increment
\* factor once per failure, minus the decrement.
C20_CounterLocalDelayCarried ==
    [][/\ (frame'.op = "reset" /\ frame'.ops = frame.ops + 1) =>
             ar' = [ar EXCEPT !.retry_delay = init_retry_delay]
       /\ (frame'.op = "call" /\ frame'.ops = frame.ops + 1) =>
             /\ [ar' EXCEPT !.retry_delay = 0] = [ar EXCEPT !.retry_delay = 0]
             /\ frame'.outcome = "AutoRetryError" =>
                    /\ frame'.invocations = ar.max_retrys
                    /\ Len(frame'.exceptions) = ar.max_retrys
             /\ frame'.outcome = "value" =>
                    /\ frame'.invocations = frame'.fails + 1
                    /\ ar'.retry_delay =
                          ar.retry_delay * Pow(ar.increment_factor, frame'.fails)
                          - Max(init_retry_delay, ar.decrement_num)]_vars

C20_Witness ==
    /\ frame.op = "call"
    /\ frame.outcome = "AutoRetryError"
    /\ frame.invocations = ar.max_retrys
    /\ ar.retry_delay >
          init_retry_delay * Pow(ar.increment_factor, ar.max_retrys - 1)

\* the entries of the three plugin lists of a registry
RegisteredPlugins(r) ==
    {r.sources[i] : i \in 1..Len(r.sources)}
    \cup {r.processors[i] : i \in 1..Len(r.processors)}
    \cup {r.notifiers[i] : i \in 1..Len(r.notifiers)}

\* C21: after register_all_plugins() of the repository's registry and
\* factory on a configuration whose two sources are one enabled and one
\* disabled, sources holds exactly one entry, the enabled source.
C21_OneEnabledOneDisabled ==
    (/\ registry.outcome = "returned"
     /\ registry.made = RepositoryFactory
     /\ Cardinality(registry.enabled \cap SourceIds) = 1) =>
        /\ Len(registry.sources) = 1
        /\ registry.sources[1] \in registry.enabled

\* C22: after register_all_plugins(), returned or raised, every entry of
\* sources, processors and notifiers is a plugin the factory returned (not
\* None) for an entry whose enabled flag is true, held once, and only
\* enabled entries have been handed to the factory.
C22_OnlyEnabledBuiltPlugins ==
    registry.outcome # "none" =>
        /\ \A id \in RegisteredPlugins(registry) :
              id \in registry.enabled /\ registry.made[id] = "object"
        /\ Cardinality(RegisteredPlugins(registry)) =
              Len(registry.sources) + Len(registry.processors)
              + Len(registry.notifiers)
        /\ \A i \in 1..Len(registry.calls) : registry.calls[i] \in registry.enabled

C22_Witness ==
    /\ registry.outcome = "returned"
    /\ registry.enabled = {"arxiv-cs", "mail-inbox", "email"}
    /\ registry.made["mail-inbox"] = "None"
    /\ registry.made["relevance"] = "object"
    /\ registry.sources = <<"arxiv-cs">>
    /\ registry.processors = <<>>
    /\ registry.notifiers = <<"email">>

\* C23: register_all_plugins() raises PluginError only when a registration
\* loop itself raises; when none does it returns with every enabled entry
\* the factory built a plugin for registered, whatever the factory did
\* (raised, returned None) for the other entries.
C23_PluginFailuresIsolated ==
    /\ registry.outcome = "PluginError" => registry.loop_fails # "none"
    /\ (registry.outcome # "none" /\ registry.loop_fails = "none") =>
          /\ registry.outcome = "returned"
          /\ \A id \in registry.enabled :
                registry.made[id] = "object" => id \in RegisteredPlugins(registry)

C23_Witness ==
    /\ registry.outcome = "returned"
    /\ registry.enabled = PluginIds
    /\ registry.made["arxiv-cs"] = "raises"
    /\ registry.made["relevance"] = "None"
    /\ registry.sources = <<"mail-inbox">>
    /\ registry.notifiers = <<"email">>

\* the insights of the posts at the positions outside `failing`, in the
\* order of the posts
SurvivingInsights(posts, failing) ==
    LET idx == SelectSeq([i \in 1..Len(posts) |-> i], LAMBDA i : i \notin failing)
    IN  [j \in 1..Len(idx) |->
            [post_id |-> posts[idx[j]].id, source |-> posts[idx[j]].source]]

\* C24: when the processing of some of the accumulated posts raises (the
\* second of three, say) and nothing else does, Summarizing returns with the
\* insights of exactly the other posts, in the order of the posts, and the
\* state is Evaluating.
C24_FailingPostIsolated ==
    [][(pc = "running" /\ self.state = SUMMARIZING
        /\ handlers_run' = Append(handlers_run, SUMMARIZING)
        /\ observed'.raise_at = "none") =>
          /\ last_transition' # None
          /\ last_transition'[1].state = EVALUATING
          /\ last_transition'[1].processed_insights =
                SurvivingInsights(self.pulled_posts, observed'.failing)]_vars

C24_Witness ==
    /\ Len(self.pulled_posts) = 3
    /\ observed.failing = {2}
    /\ last_transition # None
    /\ last_transition[1].state = EVALUATING
    /\ Len(self.processed_insights) = 2
    /\ self.processed_insights[1].post_id = self.pulled_posts[1].id
    /\ self.processed_insights[2].source = self.pulled_posts[3].source

\* the posts of one pull() without the one whose persisting raised
KeptPosts(o) ==
    IF o.raises THEN <<>>
    ELSE SelectSeq(o.posts, LAMBDA post : post.id # o.store_fail_at)

RECURSIVE KeptOfAll(_, _)
KeptOfAll(sources, pulls) ==
    IF sources = <<>> THEN <<>>
    ELSE KeptPosts(pulls[Head(sources)]) \o KeptOfAll(Tail(sources), pulls)

C26_PullsRegisteredSourcesOnce ==
    [][(pc = "running" /\ self.state = PULLING
        /\ handlers_run' = Append(handlers_run, PULLING)
        /\ observed'.raise_at # "entry") =>
          /\ self.plugin_registry # None
          /\ observed'.pull_calls = self.plugin_registry[1].sources
          /\ \A i, j \in 1..Len(observed'.pull_calls) :
                observed'.pull_calls[i] = observed'.pull_calls[j] => i = j
          /\ \A i \in 1..Len(observed'.pull_calls) :
                observed'.pull_calls[i] \in self.config_data]_vars

C26_Witness ==
    /\ handlers_run = <<INIT, PULLING>>
    /\ self.config_data = {"arxiv-cs"}
    /\ observed.pull_calls = <<"arxiv-cs">>
    /\ Len(self.pulled_posts) = 2

RECURSIVE ResultsOfAll(_, _)
ResultsOfAll(sources, pulls) ==
    IF sources = <<>> THEN <<>>
    ELSE pulls[Head(sources)].posts \o ResultsOfAll(Tail(sources), pulls)

\* the insights are those of distinct posts, met in the order of the posts
RECURSIVE InOrderOf(_, _)
InOrderOf(insights, posts) ==
    IF insights = <<>> THEN TRUE
    ELSE IF posts = <<>> THEN FALSE
    ELSE IF /\ Head(insights).post_id = Head(posts).id
            /\ Head(insights).source = Head(posts).source
         THEN InOrderOf(Tail(insights), Tail(posts))
         ELSE InOrderOf(insights, Tail(posts))

\* C27: a Pulling in which nothing raises leaves in pulled_posts the
\* concatenation, in registry order, of what each pull() returned, in the
\* order returned; a Summarizing that returns leaves in processed_insights
\* insights of distinct posts of pulled_posts, in the order of those posts.
C27_OrderPreserved ==
    [][/\ (/\ pc = "running" /\ self.state = PULLING
           /\ handlers_run' = Append(handlers_run, PULLING)
           /\ observed'.raise_at = "none"
           /\ \A i \in 1..Len(pull_targets(self)) :
                 LET o == observed'.pulls[pull_targets(self)[i]]
                 IN  ~o.raises /\ o.store_fail_at = 0) =>
             /\ last_transition' # None
             /\ last_transition'[1].pulled_posts =
                   ResultsOfAll(pull_targets(self), observed'.pulls)
       /\ (/\ pc = "running" /\ self.state = SUMMARIZING
           /\ handlers_run' = Append(handlers_run, SUMMARIZING)
           /\ last_transition' # None) =>
             /\ last_transition'[1].pulled_posts = self.pulled_posts
             /\ InOrderOf(last_transition'[1].processed_insights,
                          self.pulled_posts)]_vars

C27_Witness ==
    /\ handlers_run = <<INIT, PULLING, SUMMARIZING>>
    /\ last_transition # None
    /\ Len(self.pulled_posts) = 4
    /\ self.pulled_posts[2].source = "arxiv-cs"
    /\ self.pulled_posts[3].source = "mail-inbox"
    /\ Len(self.processed_insights) = 3
    /\ observed.failing = {2}

\* C28: a stage that fails on its first attempt (the stage before it has
\* just completed in the same run()) is not forced to Done, whatever number
\* of failures the earlier stages have had.
C28_BudgetPerState ==
    [][(HandlerRaisedStep /\ Len(handlers_run) >= 1) =>
          self'.state # DONE]_vars

C30_DatastoreClosedAtEnd ==
    (pc = "idle" /\ run_result # "none") => self.datastore # "open"

\* C31: every post a pull(filters) returns passes every filter handed to
\* the call.
C31_PulledPostsPassFilters ==
    (puller.op = "pull" /\ ~puller.raises) =>
        \A i \in 1..Len(puller.posts) :
            all_filters(puller.filters, puller.posts[i])

\* C32: on every post, ~~a answers as a, ~(a & b) as (~a) | (~b),
\* ~(a | b) as (~a) & (~b), (a & b) & c as a & (b & c) and (a | b) | c as
\* a | (b | c), for all filters a, b, c.
C32_FilterBooleanAlgebra ==
    composed.law # "none" => composed.lhs = composed.rhs

C32_Witness ==
    /\ composed.law = "De Morgan and"
    /\ composed.a = <<"AND", <<"F", 1>>, <<"F", 2>>>>
    /\ composed.b = <<"NOT", <<"F", 3>>>>
    /\ composed.v = [i \in BaseFilters |-> "True"]
    /\ composed.lhs = "True"
    /\ composed.rhs = "True"

\* C33: a Mail or an ArxivPaper that is serialized and read back equals the
\* original in id, url, source, published_date, pulled_date and in its own
\* fields (subject, body, attachments; title, abstract, paper_url), whatever
\* its attachment strings are.
C33_RoundTripPreserves ==
    roundtrip.op = "read back" => roundtrip.y = roundtrip.x

\* C34: after any sequence of store calls, each get_* returns, for every id
\* stored in its table, exactly one row, which carries the columns and
\* timestamp of the last store of that id in that table, and no row for any
\* other id; a store call leaves the rows of the other tables as they were.
C34_OneRowPerIdLatestValues ==
    \A table \in Tables :
        /\ \A id \in RowIds :
              LET rows == {r \in get_rows(database.rows, table) : r.id = id}
              IN  IF database.last[table][id] = None THEN rows = {}
                  ELSE rows = {[id |-> id,
                                columns |-> database.last[table][id][1].columns,
                                timestamp |->
                                    database.last[table][id][1].timestamp]}
        /\ \A r \in get_rows(database.rows, table) : r.id \in RowIds

C34_Witness ==
    /\ database.stores = 3
    /\ Cardinality(get_topics(database.rows)) = 1
    /\ Cardinality(get_summaries(database.rows)) = 1
    /\ \E r \in get_topics(database.rows) :
          r.id = "1" /\ r.columns = <<"y">> /\ r.timestamp = 3

\* C35: every run() ends, by returning or by raising, and executes no more
\* handlers than there are stages, whichever handlers and checkpoint saves
\* fail.
C35_RunTerminates ==
    /\ [](Len(handlers_run) <= Cardinality(State) - 1)
    /\ (pc = "running") ~> (pc = "idle")

C35_Witness ==
    /\ pc = "idle"
    /\ run_calls = 2
    /\ run_result = "raised"
    /\ handlers_run = <<PULLING, SUMMARIZING, EVALUATING>>
    /\ self.last_error = "CheckpointError"

\* C36: in a call(), the k-th blocking lasts the delay the executor had
\* before the call multiplied k times by the increment factor (10 * 2^k on
\* a fresh executor with factor 2); there is one blocking per failed attempt
\* that another attempt follows, and none after the last attempt; a call
\* that returns has decreased the delay by max(initial delay, decrement_num).
C36_BackoffMultipliesThenBlocks ==
    [][(frame'.op = "call" /\ frame'.ops = frame.ops + 1) =>
          /\ \A k \in 1..Len(frame'.sleeps) :
                frame'.sleeps[k] = ar.retry_delay * Pow(ar.increment_factor, k)
          /\ frame'.outcome \in {"value", "AutoRetryError"} =>
                Len(frame'.sleeps) = frame'.invocations - 1
          /\ frame'.outcome \in {"value", "AutoRetryError", "None"} =>
                ar'.retry_delay =
                    ar.retry_delay * Pow(ar.increment_factor, Len(frame'.sleeps))
                    - (IF frame'.outcome = "value"
                       THEN Max(init_retry_delay, ar.decrement_num) ELSE 0)]_vars

C36_Witness ==
    /\ frame.op = "call"
    /\ frame.ops = 1
    /\ ar.increment_factor = 2
    /\ frame.outcome = "AutoRetryError"
    /\ frame.invocations = 3
    /\ frame.sleeps = <<20, 40>>

\* C40: a call() of an executor built with max_retrys <= 0 does not invoke
\* the wrapped function, raises nothing and returns None.
C40_NoAttemptWithoutBudget ==
    (frame.op = "call" /\ ar.max_retrys <= 0) =>
        /\ frame.invocations = 0
        /\ frame.outcome = "None"
        /\ frame.exceptions = <<>>
        /\ frame.sleeps = <<>>

C40_Witness ==
    /\ frame.op = "call"
    /\ ar.max_retrys = -1
    /\ frame.fails = 0
    /\ frame.outcome = "None"
    /\ frame.invocations = 0

RECURSIVE SubsequenceOf(_, _)
SubsequenceOf(p, q) ==
    IF p = <<>> THEN TRUE
    ELSE IF q = <<>> THEN FALSE
    ELSE IF Head(p) = Head(q) THEN SubsequenceOf(Tail(p), Tail(q))
         ELSE SubsequenceOf(p, Tail(q))

\* no pull() of this Pulling raised and every post was persisted
NothingLost(sources, pulls) ==
    \A i \in 1..Len(sources) :
        ~pulls[sources[i]].raises /\ pulls[sources[i]].store_fail_at = 0

\* C39: a Pulling that returns leaves in pulled_posts posts returned by the
\* pull() calls of that execution only, each at most once and all of them
\* when nothing was lost, and a Summarizing that returns leaves in
\* processed_insights the insights produced in that execution only, whatever
\* the two lists held before; no step removes or changes an entry of
\* notifications_sent.
C39_ReexecutionDoesNotDuplicate ==
    [][/\ (/\ pc = "running" /\ self.state = PULLING
           /\ handlers_run' = Append(handlers_run, PULLING)
           /\ last_transition' # None) =>
             LET pulled == ResultsOfAll(pull_targets(self), observed'.pulls)
             IN  /\ SubsequenceOf(self'.pulled_posts, pulled)
                 /\ NothingLost(pull_targets(self), observed'.pulls)
                       => self'.pulled_posts = pulled
       /\ (/\ pc = "running" /\ self.state = SUMMARIZING
           /\ handlers_run' = Append(handlers_run, SUMMARIZING)
           /\ last_transition' # None) =>
             self'.processed_insights =
                 SurvivingInsights(self.pulled_posts, observed'.failing)
       /\ IsPrefix(self.notifications_sent, self'.notifications_sent)]_vars

\* the second run() re-executed Pulling over two posts left by the first
\* attempt, pulled one post, and pulled_posts holds that one post
C39_Witness ==
    /\ run_calls = 2
    /\ handlers_run = <<PULLING>>
    /\ last_transition # None
    /\ observed.held = 2
    /\ Len(self.pulled_posts) = 1
    /\ self.retry_count = 1

====
